---- MODULE Spec2Model ----
(***************************************************************************)
(* Grid layout and parameter broadcasting of seaborn-image:                *)
(* ImageGrid and ParamGrid of src/src/seaborn_image/_grid.py, and          *)
(* filterplot of src/src/seaborn_image/_filters.py.                        *)
(*                                                                         *)
(* One behaviour is one call.  The arguments are drawn in                  *)
(* Init; the constructor runs as a sequence of steps: the validation and   *)
(* layout part of __init__, one step per iteration of the rendering loop,  *)
(* and the clean-up of the surplus axes.                                   *)
(*                                                                         *)
(* Optional values (None or a value) are sequences of length 0 or 1.       *)
(* Images are not modelled by their pixels but by where they come from:    *)
(* an element of the list, a slice of the array, and the function that     *)
(* was mapped over them.                                                   *)
(***************************************************************************)
EXTENDS Integers, Sequences, FiniteSets, TLC

VARIABLES cls, call, pc, err, data, slices, col_wrap, nimages, nrow, ncol,
          fig, params, locals, i, axes, param_product, additional_kwargs,
          rcParams, op, ax_spines, plotted, warnings, caller_data

vars == <<cls, call, pc, err, data, slices, col_wrap, nimages, nrow, ncol,
          fig, params, locals, i, axes, param_product, additional_kwargs,
          rcParams, op, ax_spines, plotted, warnings, caller_data>>

(* the state of a grid under construction *)
gridVars == <<data, slices, col_wrap, nimages, nrow, ncol, fig, params, locals,
              i, axes, param_product, additional_kwargs>>

(* the configuration of the plotting library and the last image set up *)
sessionVars == <<rcParams, op, ax_spines, plotted>>

(***************************************************************************)
(* Bounds of the explored inputs.                                          *)
(***************************************************************************)
MaxImages == 2
MaxFuncs == 2
MaxExtent == 3
MaxStep == 2
MaxColWrap == 3
MaxSlices == 2
MaxRowVals == 3
MaxColVals == 3

(***************************************************************************)
(* Program constants.                                                      *)
(***************************************************************************)
DefaultColWrap == 3

(* the calls of one session *)
MaxCalls == 3

None == <<>>
Some(v) == <<v>>
IsNone(o) == o = <<>>
Val(o) == o[1]

Min(a, b) == IF a < b THEN a ELSE b
Max(a, b) == IF a > b THEN a ELSE b

(* int(np.ceil(n / c)) for a non-negative n and a positive c *)
Ceil(n, c) == IF n % c = 0 THEN n \div c ELSE (n \div c) + 1

(* np.arange(n) *)
Arange(n) == [k \in 1..n |-> k - 1]

(* Repeat that repeats every element n times in place *)
Repeat_Each(seq, n) == [k \in 1..(Len(seq) * n) |-> seq[((k - 1) \div n) + 1]]

(* seq * n of Python: the sequence repeated n times *)
Repeat(seq, n) == [k \in 1..(Len(seq) * n) |-> seq[((k - 1) % Len(seq)) + 1]]

(***************************************************************************)
(* Styling parameters of ImageGrid that may be given per image.            *)
(* A value is a single value (val = <<0>>) or a list or tuple; the         *)
(* element at position j of a supplied sequence is j, so that the cell a   *)
(* value ends up in shows where it was taken from.                         *)
(***************************************************************************)
ParamNames == {"cmap", "robust", "perc", "vmin", "vmax", "dx", "units",
               "dimension", "cbar", "cbar_log", "cbar_label"}

Single == [kind |-> "single", val |-> <<0>>]
SeqValue(k, n) == [kind |-> k, val |-> [j \in 1..n |-> j]]
(* one element of a supplied sequence *)
Elem(v) == [kind |-> "elem", val |-> <<v>>]

(* isinstance(self.<p>, (list, tuple)); for perc isinstance(self.perc, (list)) *)
IsSeqParam(p, v) ==
    IF p = "perc" THEN v.kind = "list" ELSE v.kind \in {"list", "tuple"}

AdjustedParams == {"dx", "units", "dimension", "cbar", "cbar_label", "cbar_log"}

(* adjust_param_list_len that repeats every sequence *)
adjust_param_list_len_All(ps, nfunc) ==
    [p \in ParamNames |->
        IF ps[p].kind \in {"list", "tuple"}
        THEN [ps[p] EXCEPT !.val = Repeat(ps[p].val, nfunc)]
        ELSE ps[p]]

(* ImageGrid._adjust_param_list_len *)
adjust_param_list_len(ps, nfunc) ==
    [p \in ParamNames |->
        IF p \in AdjustedParams /\ ps[p].kind \in {"list", "tuple"}
        THEN [ps[p] EXCEPT !.val = Repeat(ps[p].val, nfunc)]
        ELSE ps[p]]

(* check_len_wrt_n_images that raises for too short a sequence only *)
check_len_too_short(param_list, n) == Len(param_list) < n

(* ImageGrid._check_len_wrt_n_images: TRUE when the AssertionError is raised *)
check_len_wrt_n_images(param_list, n) == Len(param_list) # n

(***************************************************************************)
(* Python slicing, a[start:stop:step] on an axis of the given extent:      *)
(* the indices selected, in order.  step is None or positive.              *)
(***************************************************************************)
SliceBound(b, extent, dflt) ==
    IF IsNone(b) THEN dflt
    ELSE IF Val(b) < 0 THEN Max(Val(b) + extent, 0)
    ELSE Min(Val(b), extent)

(* SliceIndices that ignores the step *)
SliceIndices_NoStep(extent, start, stop, step) ==
    LET lo == SliceBound(start, extent, 0)
        hi == SliceBound(stop, extent, extent)
        n  == IF hi > lo THEN hi - lo ELSE 0
    IN [k \in 1..n |-> lo + (k - 1)]

SliceIndices(extent, start, stop, step) ==
    LET st == IF IsNone(step) THEN 1 ELSE Val(step)
        lo == SliceBound(start, extent, 0)
        hi == SliceBound(stop, extent, extent)
        n  == IF hi > lo THEN (hi - lo + st - 1) \div st ELSE 0
    IN [k \in 1..n |-> lo + (k - 1) * st]

(***************************************************************************)
(* Data.  A list is a sequence of images; an array has a number of         *)
(* dimensions and, for each of its first three axes, the indices of the    *)
(* source array it still holds (idx), in order.                            *)
(***************************************************************************)
(* where an image comes from: an element of the list, a slice of the array
   along an axis, or the whole 2-D array; fn is the function mapped over it
   (0 for none, j for the j-th of the list) and kw the keyword arguments
   that function was called with *)
Src(from, axis, index) == [from |-> from, axis |-> axis, index |-> index]

Image(k, nd) == [src |-> Src("elem", 0, k), ndim |-> nd, fn |-> 0, kw |-> None]

ListData(nds) ==
    [kind |-> "list", ndim |-> 0, idx |-> <<>>, fn |-> 0, kw |-> None,
     elems |-> [k \in 1..Len(nds) |-> Image(k, nds[k])], mutable |-> TRUE]

(* a tuple of images: as a list, but its items can not be assigned *)
TupleData(nds) == [ListData(nds) EXCEPT !.mutable = FALSE]

ArrayData(nd, shape) ==
    [kind |-> "array", ndim |-> nd,
     idx |-> [a \in 1..Len(shape) |-> Arange(shape[a])], fn |-> 0, kw |-> None,
     elems |-> <<>>, mutable |-> TRUE]

NoData ==
    [kind |-> "none", ndim |-> 0, idx |-> <<>>, fn |-> 0, kw |-> None,
     elems |-> <<>>, mutable |-> FALSE]

(* position of a Python axis number among the axes of a 3-D array, 1-based *)
AxisPos(axis) == (axis % 3) + 1

(* data[(slice(None),) * (axis % data.ndim) + (slice(start, stop, step),)] *)
SliceData(d, axis, start, stop, step) ==
    LET a == AxisPos(axis)
        sel == SliceIndices(Len(d.idx[a]), start, stop, step)
    IN [d EXCEPT !.idx[a] = [k \in 1..Len(sel) |-> d.idx[a][sel[k] + 1]]]

(* map_func: None, a callable, a list or tuple of n callables, a list or
   tuple of n objects that are not all callable, or an object that is
   neither callable nor a list or tuple *)
NoFunc == [kind |-> "none", n |-> 0]
Callable == [kind |-> "callable", n |-> 1]
FuncList(n) == [kind |-> "list", n |-> n]
MixedList(n) == [kind |-> "mixedlist", n |-> n]
NotCallable == [kind |-> "other", n |-> 0]

(* map_func_kw: None, a dictionary, a list or tuple whose entries are None
   or a dictionary, or an object that is neither.  A dictionary is named by
   a number: 9 for the one of a single function, j for entry j of a list. *)
NoKw == [kind |-> "none", v |-> <<>>]
KwDict == [kind |-> "dict", v |-> <<Some(9)>>]
KwList(es) == [kind |-> "list", v |-> es]
KwOther == [kind |-> "other", v |-> <<>>]

Checked(t) == [type |-> t, err |-> "none"]
CheckFailed(e) == [type |-> "None", err |-> e]

(* check_map_func that accepts any map_func_kw *)
check_map_func_NoKwCheck(map_func, map_func_kw) ==
    IF map_func.kind = "none" THEN Checked("None")
    ELSE IF map_func.kind = "mixedlist" THEN CheckFailed("TypeError")
    ELSE IF map_func.kind = "list" THEN Checked("list/tuple")
    ELSE IF map_func.kind = "callable" THEN Checked("callable")
    ELSE CheckFailed("TypeError")

(* ImageGrid._check_map_func: the kind of map_func, or the error raised *)
check_map_func(map_func, map_func_kw) ==
    IF map_func.kind = "none" THEN Checked("None")
    ELSE IF map_func.kind = "mixedlist" THEN CheckFailed("TypeError")
    ELSE IF map_func.kind = "list"
    THEN IF map_func_kw.kind = "none" THEN Checked("list/tuple")
         ELSE IF map_func_kw.kind # "list" THEN CheckFailed("TypeError")
         ELSE IF Len(map_func_kw.v) # map_func.n THEN CheckFailed("ValueError")
         ELSE Checked("list/tuple")
    ELSE IF map_func.kind = "callable"
    THEN IF map_func_kw.kind \notin {"none", "dict"} THEN CheckFailed("TypeError")
         ELSE Checked("callable")
    ELSE CheckFailed("TypeError")

(* the keyword arguments function j of a list is called with: none when
   map_func_kw is None or its entry j is None *)
ListKw(map_func_kw, j) ==
    IF map_func_kw.kind = "none" THEN None ELSE map_func_kw.v[j]

(* the keyword arguments a single function is called with *)
SingleKw(map_func_kw) ==
    IF map_func_kw.kind = "none" THEN None ELSE map_func_kw.v[1]

(* map_func_to_data that runs through the functions for every image *)
map_func_to_data_ImageMajor(d, map_func, map_func_kw) ==
    IF d.kind = "list"
    THEN IF check_map_func(map_func, map_func_kw).type = "list/tuple"
         THEN LET F == map_func.n
              IN [d EXCEPT !.elems =
                    [k \in 1..(Len(d.elems) * F) |->
                        [d.elems[((k - 1) \div F) + 1]
                            EXCEPT !.fn = ((k - 1) % F) + 1,
                                   !.kw = ListKw(map_func_kw, ((k - 1) % F) + 1)]]]
         ELSE [d EXCEPT !.elems =
                    [k \in 1..Len(d.elems) |->
                        [d.elems[k] EXCEPT !.fn = 1,
                                           !.kw = SingleKw(map_func_kw)]]]
    ELSE IF check_map_func(map_func, map_func_kw).type = "callable"
         THEN [d EXCEPT !.fn = 1, !.kw = SingleKw(map_func_kw)]
         ELSE [d EXCEPT !.kind = "list",
                        !.elems = [k \in 1..map_func.n |->
                            [src |-> Src("whole", 0, 0), ndim |-> d.ndim,
                             fn |-> k, kw |-> ListKw(map_func_kw, k)]]]

(* ImageGrid._map_func_to_data *)
map_func_to_data(d, map_func, map_func_kw) ==
    IF d.kind = "list"
    THEN IF check_map_func(map_func, map_func_kw).type = "list/tuple"
         THEN LET D == Len(d.elems)
              IN [d EXCEPT !.elems =
                    [k \in 1..(D * map_func.n) |->
                        [d.elems[((k - 1) % D) + 1]
                            EXCEPT !.fn = ((k - 1) \div D) + 1,
                                   !.kw = ListKw(map_func_kw, ((k - 1) \div D) + 1)]]]
         ELSE [d EXCEPT !.elems =
                    [k \in 1..Len(d.elems) |->
                        [d.elems[k] EXCEPT !.fn = 1,
                                           !.kw = SingleKw(map_func_kw)]]]
    ELSE IF check_map_func(map_func, map_func_kw).type = "callable"
         THEN [d EXCEPT !.fn = 1, !.kw = SingleKw(map_func_kw)]
         ELSE [d EXCEPT !.kind = "list",
                        !.elems = [k \in 1..map_func.n |->
                            [src |-> Src("whole", 0, 0), ndim |-> d.ndim,
                             fn |-> k, kw |-> ListKw(map_func_kw, k)]]]

(***************************************************************************)
(* Axes.  A cell holds the images drawn into it, each with the data shown  *)
(* and the arguments the renderer was called with, the row and column      *)
(* labels, and whether the clean-up blanked it.                            *)
(***************************************************************************)
BlankCell == [images |-> <<>>, blanked |-> FALSE, ylabel |-> None, title |-> None]

(* fig.subplots(nrow, ncol, squeeze=False), flattened in row-major order *)
Subplots(r, c) == [k \in 1..(r * c) |-> BlankCell]

(***************************************************************************)
(* The arguments of the explored calls.                                    *)
(***************************************************************************)
ColWraps == {None} \cup {Some(c) : c \in 1..MaxColWrap}
MapFuncs == {NoFunc, Callable} \cup {FuncList(n) : n \in 1..MaxFuncs}
Shapes == {<<e, (e % MaxExtent) + 1, ((e + 1) % MaxExtent) + 1>> : e \in 1..MaxExtent}
AxisValues == {0, 1, 2, -1, 3}
Bounds == {None} \cup {Some(b) : b \in 0..(MaxExtent + 1)}
Steps == {None} \cup {Some(s) : s \in 1..MaxStep}
NoSlices == [kind |-> "none", v |-> <<>>]
SliceValues ==
    {[kind |-> "int", v |-> <<j>>] : j \in 0..(MaxExtent - 1)}
    \cup {[kind |-> "list", v |-> s] :
            s \in UNION {[1..n -> 0..(MaxExtent - 1)] : n \in 1..MaxSlices}}

DefaultParams == [p \in ParamNames |-> Single]
OneSeqParams ==
    {[DefaultParams EXCEPT ![p] = SeqValue(k, n)] :
        p \in ParamNames, k \in {"list", "tuple"}, n \in 0..(MaxImages * MaxFuncs)}

ImageLists == {ListData(nds) : nds \in UNION {[1..d -> {2, 3}] : d \in 0..MaxImages}}
ImageTuples == {TupleData(nds) : nds \in UNION {[1..d -> {2}] : d \in 0..MaxImages}}
Arrays3 == {ArrayData(3, s) : s \in Shapes}
Image2D == ArrayData(2, <<2, 3>>)
Array4D == ArrayData(4, <<2, 2, 3, 3>>)

ImageGridCall(d, sl, ax, st, sp, stp, mf, cw, ps) ==
    [data |-> d, slices |-> sl, axis |-> ax, start |-> st, stop |-> sp,
     step |-> stp, map_func |-> mf, map_func_kw |-> NoKw, col_wrap |-> cw,
     params |-> ps]

(* calls that vary the styling parameters, with the default layout and
   slicing *)
StyledCall(c) ==
    \E d \in ImageLists \cup Arrays3 \cup {Image2D}, mf \in MapFuncs,
       ps \in OneSeqParams :
        c = ImageGridCall(d, NoSlices, -1, None, None, Some(1), mf, None, ps)

(* calls that vary the data, the functions mapped and the column wrap *)
LayoutCall(c) ==
    \E d \in ImageLists \cup Arrays3 \cup {Image2D, Array4D, NoData},
       mf \in MapFuncs, cw \in ColWraps :
        c = ImageGridCall(d, NoSlices, -1, None, None, Some(1), mf, cw, DefaultParams)

(* calls that vary the slicing of a 3-D array *)
SlicedCall(c) ==
    \E d \in Arrays3, ax \in AxisValues, st \in Bounds, sp \in Bounds,
       stp \in Steps, mf \in {NoFunc, Callable}, cw \in ColWraps :
        c = ImageGridCall(d, NoSlices, ax, st, sp, stp, mf, cw, DefaultParams)

(* calls that pick the slices of a 3-D array *)
PickedCall(c) ==
    \E d \in Arrays3, sl \in SliceValues, ax \in AxisValues,
       mf \in {NoFunc, Callable}, cw \in ColWraps :
        c = ImageGridCall(d, sl, ax, None, None, Some(1), mf, cw, DefaultParams)

(* the values of map_func and of map_func_kw *)
AnyMapFuncs ==
    MapFuncs \cup {NotCallable} \cup {MixedList(n) : n \in 1..MaxFuncs}
KwEntries(n) == {es \in [1..n -> {None} \cup {Some(j) : j \in 1..n}] :
                    \A j \in 1..n : es[j] \in {None, Some(j)}}
AnyKw ==
    {NoKw, KwDict, KwOther}
    \cup {KwList(es) : es \in UNION {KwEntries(n) : n \in 1..MaxFuncs}}

(* calls that vary the functions mapped and their keyword arguments *)
MappedCall(c) ==
    \E d \in ImageLists \cup ImageTuples \cup Arrays3 \cup {Image2D},
       mf \in AnyMapFuncs,
       kw \in AnyKw, ax \in {-1, 3} :
        c = [ImageGridCall(d, NoSlices, ax, None, None, Some(1), mf, None,
                           DefaultParams) EXCEPT !.map_func_kw = kw]

(***************************************************************************)
(* ImageGrid.__init__ up to the layout: the number of images, the data as  *)
(* sliced, the slices and the column wrap before its default and clamp.    *)
(***************************************************************************)
Fail(e) ==
    [err |-> e, data |-> NoData, slices |-> <<>>, nimages |-> 0, col_wrap |-> None]

(* ColumnsForFuncs with the lower of the two lengths *)
ColumnsForFuncs_Lower(nfunc, ndata) == IF nfunc >= ndata THEN ndata ELSE nfunc

(* the column wrap chosen for a list of map_func when none is given: the
   length of the data list or of the map_func list, whichever is higher *)
ColumnsForFuncs(nfunc, ndata) == IF nfunc >= ndata THEN nfunc ELSE ndata

CountImages(c) ==
    LET chk == check_map_func(c.map_func, c.map_func_kw)
        mft == chk.type
        d == c.data
    IN IF d.kind = "none" THEN Fail("ValueError")
       ELSE IF d.kind = "list"
       THEN IF chk.err # "none" THEN Fail(chk.err)
            ELSE [err |-> "none", data |-> d, slices |-> c.slices.v,
                  nimages |-> IF mft = "list/tuple"
                              THEN Len(d.elems) * c.map_func.n ELSE Len(d.elems),
                  col_wrap |-> IF mft = "list/tuple" /\ IsNone(c.col_wrap)
                               THEN Some(ColumnsForFuncs(c.map_func.n, Len(d.elems)))
                               ELSE c.col_wrap]
       ELSE IF d.ndim > 3 THEN Fail("ValueError")
       ELSE IF d.ndim = 3
       THEN IF c.slices.kind = "none" /\ c.axis \notin {0, 1, 2, -1}
            THEN Fail("ValueError")
            ELSE LET d2 == IF c.slices.kind = "none"
                           THEN SliceData(d, c.axis, c.start, c.stop, c.step)
                           ELSE d
                     sl == IF c.slices.kind = "none"
                           THEN Arange(Len(d2.idx[AxisPos(c.axis)]))
                           ELSE c.slices.v
                 IN IF chk.err # "none" THEN Fail(chk.err)
                    ELSE IF mft = "list/tuple" THEN Fail("ValueError")
                    ELSE [err |-> "none", data |-> d2, slices |-> sl,
                          nimages |-> Len(sl), col_wrap |-> c.col_wrap]
       ELSE IF chk.err # "none" THEN Fail(chk.err)
       ELSE [err |-> "none", data |-> d, slices |-> c.slices.v,
             nimages |-> IF mft = "list/tuple" THEN c.map_func.n ELSE 1,
             col_wrap |-> IF mft = "list/tuple" /\ IsNone(c.col_wrap)
                          THEN Some(c.map_func.n) ELSE c.col_wrap]

(* ColWrapFor without the clamp to the number of images *)
ColWrapFor_NoClamp(cw, n) == IF IsNone(cw) THEN DefaultColWrap ELSE Val(cw)

(* the default and the clamp of col_wrap *)
ColWrapFor(cw, n) ==
    LET c1 == IF IsNone(cw) THEN DefaultColWrap ELSE Val(cw)
    IN IF c1 > n THEN n ELSE c1

Raise(e) ==
    /\ pc' = "error"
    /\ err' = e

(***************************************************************************)
(* ImageGrid.__init__ up to the call of _map_img_to_grid: validation,      *)
(* layout, the figure and its axes, the attributes, _map_func_to_data.     *)
(***************************************************************************)
ImageGridInit ==
    /\ cls = "ImageGrid"
    /\ pc = "start"
    /\ LET c == call
           plan == CountImages(c)
           cw == ColWrapFor(plan.col_wrap, plan.nimages)
       IN IF plan.err # "none"
          THEN /\ Raise(plan.err)
               /\ UNCHANGED <<data, slices, col_wrap, nimages, nrow, ncol, fig,
                              params, locals, i, axes, caller_data>>
          ELSE IF cw = 0
          THEN /\ Raise("ZeroDivisionError")
               /\ UNCHANGED <<data, slices, col_wrap, nimages, nrow, ncol, fig,
                              params, locals, i, axes, caller_data>>
          ELSE LET mft == check_map_func(c.map_func, c.map_func_kw).type
                   ps == IF c.data.kind = "list" /\ mft = "list/tuple"
                         THEN adjust_param_list_len(c.params, c.map_func.n)
                         ELSE c.params
                   inplace == c.data.kind = "list" /\ mft = "callable"
               IN /\ ncol' = cw
                  /\ nrow' = Ceil(plan.nimages, cw)
                  /\ fig' = TRUE
                  /\ axes' = Subplots(Ceil(plan.nimages, cw), cw)
                  /\ slices' = plan.slices
                  /\ col_wrap' = cw
                  /\ nimages' = plan.nimages
                  /\ i' = 0
                  /\ IF inplace /\ ~c.data.mutable
                     THEN /\ Raise("TypeError")
                          /\ data' = plan.data
                          /\ params' = c.params
                          /\ locals' = c.params
                          /\ UNCHANGED caller_data
                     ELSE /\ data' = IF c.map_func.kind # "none"
                                     THEN map_func_to_data(plan.data, c.map_func,
                                                           c.map_func_kw)
                                     ELSE plan.data
                          /\ caller_data' = IF inplace THEN data'
                                            ELSE caller_data
                          /\ params' = ps
                          /\ locals' = ps
                          /\ pc' = "render"
                          /\ err' = "none"
    /\ UNCHANGED <<cls, call, param_product, additional_kwargs>>
    /\ UNCHANGED <<sessionVars, warnings>>

(***************************************************************************)
(* One iteration of the loop of ImageGrid._map_img_to_grid: the image of   *)
(* cell i, the per-image value of every styling parameter, and the call    *)
(* of imgplot on the axes of the cell.                                     *)
(***************************************************************************)
(* the axis of the array that self.axis selects in the loop; 0 when no
   branch of the loop assigns the image *)
LoopAxis(axis) ==
    IF axis = 0 THEN 1
    ELSE IF axis = 1 THEN 2
    ELSE IF axis = 2 \/ axis = -1 THEN 3
    ELSE 0

(* CellImage that takes the slice at the position of the cell *)
CellImage_ByPosition(d, sl, axis, k) ==
    IF d.kind = "list"
    THEN IF d.elems[k + 1].ndim > 2
         THEN [err |-> "ValueError", img |-> d.elems[k + 1]]
         ELSE [err |-> "none", img |-> d.elems[k + 1]]
    ELSE IF d.ndim = 3
    THEN LET a == LoopAxis(axis)
             n == IF a = 0 THEN 0 ELSE Len(d.idx[a])
         IN IF a = 0
            THEN [err |-> "UnboundLocalError", img |-> Image(0, 0)]
            ELSE IF k >= n
            THEN [err |-> "IndexError", img |-> Image(0, 0)]
            ELSE [err |-> "none",
                  img |-> [src |-> Src("slice", a - 1, d.idx[a][k + 1]),
                           ndim |-> 2, fn |-> d.fn, kw |-> d.kw]]
    ELSE [err |-> "none",
          img |-> [src |-> Src("whole", 0, 0), ndim |-> d.ndim, fn |-> d.fn,
                   kw |-> d.kw]]

(* the image of cell k (0-based), or the error raised on the way *)
CellImage(d, sl, axis, k) ==
    IF d.kind = "list"
    THEN IF d.elems[k + 1].ndim > 2
         THEN [err |-> "ValueError", img |-> d.elems[k + 1]]
         ELSE [err |-> "none", img |-> d.elems[k + 1]]
    ELSE IF d.ndim = 3
    THEN LET a == LoopAxis(axis)
             n == IF a = 0 THEN 0 ELSE Len(d.idx[a])
             s == sl[k + 1]
             pos == IF s < 0 THEN s + n ELSE s
         IN IF a = 0
            THEN [err |-> "UnboundLocalError", img |-> Image(0, 0)]
            ELSE IF pos < 0 \/ pos >= n
            THEN [err |-> "IndexError", img |-> Image(0, 0)]
            ELSE [err |-> "none",
                  img |-> [src |-> Src("slice", a - 1, d.idx[a][pos + 1]),
                           ndim |-> 2, fn |-> d.fn, kw |-> d.kw]]
    ELSE [err |-> "none",
          img |-> [src |-> Src("whole", 0, 0), ndim |-> d.ndim, fn |-> d.fn,
                   kw |-> d.kw]]

(* CellParam that indexes the sequence with the previous cell *)
CellParam_Previous(p, v, local, k) ==
    IF IsSeqParam(p, v) THEN Elem(v.val[IF k = 0 THEN 1 ELSE k]) ELSE local

(* the value of parameter p handed to imgplot for cell k (0-based) *)
CellParam(p, v, local, k) ==
    IF IsSeqParam(p, v) THEN Elem(v.val[k + 1]) ELSE local

ImageGridMapImg ==
    /\ cls = "ImageGrid"
    /\ pc = "render"
    /\ i < nimages
    /\ LET cell == CellImage(data, slices, call.axis, i)
           bad == {p \in ParamNames :
                     /\ IsSeqParam(p, params[p])
                     /\ check_len_wrt_n_images(params[p].val, nimages)}
           args == [p \in ParamNames |-> CellParam(p, params[p], locals[p], i)]
       IN IF cell.err # "none"
          THEN /\ Raise(cell.err)
               /\ UNCHANGED <<locals, i, axes>>
          ELSE IF bad # {}
          THEN /\ Raise("AssertionError")
               /\ UNCHANGED <<locals, i, axes>>
          ELSE /\ locals' = args
               /\ axes' = [axes EXCEPT ![i + 1].images =
                              Append(@, [d |-> cell.img, args |-> args])]
               /\ i' = i + 1
               /\ UNCHANGED <<pc, err>>
    /\ UNCHANGED <<cls, call, data, slices, col_wrap, nimages, nrow, ncol, fig,
                   params, param_product, additional_kwargs>>
    /\ UNCHANGED <<sessionVars, warnings, caller_data>>

(***************************************************************************)
(* The clean-up of the axes beyond the last image: ticks and labels        *)
(* removed, spines hidden.                                                 *)
(***************************************************************************)
Blanked(cell) == [cell EXCEPT !.blanked = TRUE, !.ylabel = None]

(* CleanupLast that blanks axes.flat[:rem] *)
CleanupLast_First(ax, rem) ==
    [k \in 1..Len(ax) |->
        IF rem > 0 /\ k <= rem THEN Blanked(ax[k]) ELSE ax[k]]

(* axes.flat[-rem:] blanked, for rem > 0 *)
CleanupLast(ax, rem) ==
    [k \in 1..Len(ax) |->
        IF rem > 0 /\ k > Len(ax) - rem THEN Blanked(ax[k]) ELSE ax[k]]

(* ImageGrid._cleanup_extra_axes and _finalize_grid, after the loop *)
ImageGridCleanup ==
    /\ cls = "ImageGrid"
    /\ pc = "render"
    /\ i = nimages
    /\ axes' = CleanupLast(axes, (ncol * nrow) - nimages)
    /\ pc' = "done"
    /\ UNCHANGED <<cls, call, err, data, slices, col_wrap, nimages, nrow, ncol,
                   fig, params, locals, i, param_product, additional_kwargs>>
    /\ UNCHANGED <<sessionVars, warnings, caller_data>>

(***************************************************************************)
(* ParamGrid.  row and col are None, a parameter name, or something that   *)
(* is not a string.  The keyword arguments map names to values; every      *)
(* value is a sequence: the list of values of a swept parameter, or the    *)
(* one value of a fixed parameter.                                         *)
(***************************************************************************)
NoName == [kind |-> "none", name |-> ""]
Name(n) == [kind |-> "str", name |-> n]
NotAString == [kind |-> "other", name |-> ""]

KwNames == {"sigma", "mode", "cval", "sig"}

KwValue(k, R, C) ==
    IF k = "sigma" THEN [j \in 1..R |-> 10 + j]
    ELSE IF k = "mode" THEN [j \in 1..C |-> 20 + j]
    ELSE IF k = "cval" THEN <<5>>
    ELSE <<6>>

Kwargs(K, R, C) == [k \in K |-> KwValue(k, R, C)]

ParamGridCall(c) ==
    \E d \in {None, Some("img")}, mf \in {None, Some("f")},
       r \in {NoName, Name("sigma"), NotAString},
       c0 \in {NoName, Name("mode"), NotAString},
       cw \in ColWraps, K \in SUBSET KwNames,
       R \in 1..MaxRowVals, C \in 1..MaxColVals :
        /\ "sigma" \notin K => R = 1
        /\ "mode" \notin K => C = 1
        /\ c = [data |-> d, map_func |-> mf, row |-> r, col |-> c0,
                col_wrap |-> cw, kwargs |-> Kwargs(K, R, C)]

(* k in name, for strings k and name: k is a substring of name *)
InString(k, name) == k = name \/ (k = "sig" /\ name = "sigma")

(* dict.update({k: v}) *)
Update(f, k, v) == [x \in DOMAIN f \cup {k} |-> IF x = k THEN v ELSE f[x]]

(* ProductParams that runs through the rows first *)
ProductParams_ColumnMajor(row, col, row_params, col_params) ==
    IF row.kind # "none" /\ col.kind # "none"
    THEN [k \in 1..(Len(row_params) * Len(col_params)) |->
            <<row_params[((k - 1) % Len(row_params)) + 1],
              col_params[((k - 1) \div Len(row_params)) + 1]>>]
    ELSE IF row.kind # "none"
    THEN [k \in 1..Len(row_params) |-> <<row_params[k]>>]
    ELSE IF col.kind # "none"
    THEN [k \in 1..Len(col_params) |-> <<col_params[k]>>]
    ELSE <<>>

(* itertools.product(row_params, col_params) as a list of [r, c], or the
   list of [r] or of [c] when only one of row and col is given *)
ProductParams(row, col, row_params, col_params) ==
    IF row.kind # "none" /\ col.kind # "none"
    THEN [k \in 1..(Len(row_params) * Len(col_params)) |->
            <<row_params[((k - 1) \div Len(col_params)) + 1],
              col_params[((k - 1) % Len(col_params)) + 1]>>]
    ELSE IF row.kind # "none"
    THEN [k \in 1..Len(row_params) |-> <<row_params[k]>>]
    ELSE IF col.kind # "none"
    THEN [k \in 1..Len(col_params) |-> <<col_params[k]>>]
    ELSE <<>>

(* the keyword arguments that are not swept, passed on to the filter *)
AdditionalKwargs(row, col, kwargs) ==
    LET keep == {k \in DOMAIN kwargs :
                    IF row.kind # "none" /\ col.kind # "none"
                    THEN k \notin {row.name, col.name}
                    ELSE IF row.kind # "none" THEN ~InString(k, row.name)
                    ELSE IF col.kind # "none" THEN ~InString(k, col.name)
                    ELSE FALSE}
    IN [k \in keep |-> kwargs[k]]

(* the check of row or col: a string, and the name of a keyword argument *)
NameCheck(n, kwargs) ==
    IF n.kind = "other" THEN "TypeError"
    ELSE IF n.kind = "str" /\ n.name \notin DOMAIN kwargs THEN "ValueError"
    ELSE "none"

(* ColWrapCheck without the check of row *)
ColWrapCheck_NoRowCheck(c) ==
    IF IsNone(c.col_wrap) THEN "none"
    ELSE IF c.col.kind = "none" /\ "None" \notin DOMAIN c.kwargs THEN "KeyError"
    ELSE "none"

(* col_wrap can not be used with row; with col_wrap the number of rows is
   computed from kwargs[f"{col}"] *)
ColWrapCheck(c) ==
    IF IsNone(c.col_wrap) THEN "none"
    ELSE IF c.row.kind # "none" THEN "ValueError"
    ELSE IF c.col.kind = "none" /\ "None" \notin DOMAIN c.kwargs THEN "KeyError"
    ELSE "none"

(* ParamGridCheck without the check of map_func *)
ParamGridCheck_NoFuncCheck(c) ==
    IF IsNone(c.data) THEN "ValueError"
    ELSE IF NameCheck(c.row, c.kwargs) # "none" THEN NameCheck(c.row, c.kwargs)
    ELSE IF NameCheck(c.col, c.kwargs) # "none" THEN NameCheck(c.col, c.kwargs)
    ELSE ColWrapCheck(c)

(* the validation of ParamGrid.__init__: the error raised before the figure
   is created, or "none" *)
ParamGridCheck(c) ==
    IF IsNone(c.data) THEN "ValueError"
    ELSE IF IsNone(c.map_func) THEN "ValueError"
    ELSE IF NameCheck(c.row, c.kwargs) # "none" THEN NameCheck(c.row, c.kwargs)
    ELSE IF NameCheck(c.col, c.kwargs) # "none" THEN NameCheck(c.col, c.kwargs)
    ELSE ColWrapCheck(c)

(* FilterGrid.__init__ calls ParamGrid with its own arguments *)
FilterGridArgs_NoColWrap(c) == [c EXCEPT !.col_wrap = None]

FilterGridArgs(c) == c

(* the arguments of the ParamGrid under construction *)
ParamGridArgs == IF cls = "FilterGrid" THEN FilterGridArgs(call) ELSE call

(* a ParamGrid is constructed, by its caller or by FilterGrid *)
RunsParamGrid == cls \in {"ParamGrid", "FilterGrid"}

(* FilterGrid.__init__ up to its call of ParamGrid: the warning *)
FilterGridWarn ==
    /\ cls = "FilterGrid"
    /\ pc = "start"
    /\ warnings' = Append(warnings, "UserWarning")
    /\ pc' = "construct"
    /\ UNCHANGED <<cls, call, err, caller_data>>
    /\ UNCHANGED <<gridVars, sessionVars>>

(* ParamGrid.__init__ with the arguments args, up to the call of map_filter_to_grid *)
ParamGridInitFor(args) ==
    /\ LET c == args
           e == ParamGridCheck(c)
       IN IF e # "none"
          THEN /\ Raise(e)
               /\ UNCHANGED <<col_wrap, nrow, ncol, fig, i, axes,
                              param_product, additional_kwargs>>
          ELSE LET row_params == IF c.row.kind = "str"
                                 THEN c.kwargs[c.row.name] ELSE <<>>
                   col_params == IF c.col.kind = "str"
                                 THEN c.kwargs[c.col.name] ELSE <<>>
                   r0 == IF c.row.kind = "none" THEN 1 ELSE Len(row_params)
                   c0 == IF c.col.kind = "none" THEN 1 ELSE Len(col_params)
                   nc == IF IsNone(c.col_wrap) THEN c0 ELSE Val(c.col_wrap)
                   nr == IF IsNone(c.col_wrap) THEN r0
                         ELSE Ceil(Len(col_params), Val(c.col_wrap))
               IN /\ nrow' = nr
                  /\ ncol' = nc
                  /\ fig' = TRUE
                  /\ axes' = Subplots(nr, nc)
                  /\ param_product' =
                        ProductParams(c.row, c.col, row_params, col_params)
                  /\ additional_kwargs' = AdditionalKwargs(c.row, c.col, c.kwargs)
                  /\ col_wrap' = IF IsNone(c.col_wrap) THEN 0 ELSE Val(c.col_wrap)
                  /\ i' = 0
                  /\ pc' = "map"
                  /\ err' = "none"
    /\ UNCHANGED <<cls, call, data, slices, nimages, params, locals>>
    /\ UNCHANGED <<sessionVars, warnings, caller_data>>

ParamGridInit ==
    /\ \/ cls = "ParamGrid" /\ pc = "start"
       \/ cls = "FilterGrid" /\ pc = "construct"
    /\ ParamGridInitFor(ParamGridArgs)

(* ParamGrid._plot: filterplot of the data with the keyword arguments *)
Plot(cell, func_kwargs) ==
    [cell EXCEPT !.images = Append(@, [d |-> "filtered", args |-> func_kwargs])]

(* the start of ParamGrid.map_filter_to_grid, before its loop *)
ParamGridMapStartFor(args) ==
    /\ pc = "map"
    /\ axes' = IF args.row.kind = "none" /\ args.col.kind = "none"
               THEN [axes EXCEPT ![1].images =
                        Append(@, [d |-> "data", args |-> <<>>])]
               ELSE axes
    /\ pc' = "render"
    /\ UNCHANGED <<cls, call, err, data, slices, col_wrap, nimages, nrow, ncol,
                   fig, params, locals, i, param_product, additional_kwargs>>
    /\ UNCHANGED <<sessionVars, warnings, caller_data>>

ParamGridMapStart ==
    /\ RunsParamGrid
    /\ ParamGridMapStartFor(ParamGridArgs)

Label(name, value) == Some([param |-> name, value |-> value])

(* one iteration of the loop of ParamGrid.map_filter_to_grid *)
ParamGridMapFilterFor(args) ==
    /\ pc = "render"
    /\ i < Len(param_product)
    /\ LET p == param_product[i + 1]
           row == args.row
           col == args.col
           (* plot only col vars *)
           kw1 == IF row.kind = "none"
                  THEN Update(additional_kwargs, col.name, <<p[1]>>)
                  ELSE additional_kwargs
           ax1 == IF row.kind = "none"
                  THEN [Plot(axes[i + 1], kw1) EXCEPT !.title = Label(col.name, p[1])]
                  ELSE axes[i + 1]
           (* plot only row vars *)
           kw2 == IF col.kind = "none" THEN Update(kw1, row.name, <<p[1]>>) ELSE kw1
           ax2 == IF col.kind = "none"
                  THEN [Plot(ax1, kw2) EXCEPT !.title = Label(row.name, p[1])]
                  ELSE ax1
           (* when both row and col vars are specified *)
           both == row.kind # "none" /\ col.kind # "none"
           kw3 == IF both
                  THEN Update(Update(kw2, row.name, <<p[1]>>), col.name, <<p[2]>>)
                  ELSE kw2
           ax3 == IF both
                  THEN [Plot(ax2, kw3) EXCEPT
                          !.ylabel = IF i % nrow = 0
                                     THEN Label(row.name, p[1]) ELSE @,
                          !.title = IF i < ncol
                                    THEN Label(col.name, p[2]) ELSE @]
                  ELSE ax2
       IN /\ additional_kwargs' = kw3
          /\ axes' = [axes EXCEPT ![i + 1] = ax3]
          /\ i' = i + 1
    /\ UNCHANGED <<cls, call, pc, err, data, slices, col_wrap, nimages, nrow,
                   ncol, fig, params, locals, param_product>>
    /\ UNCHANGED <<sessionVars, warnings, caller_data>>

ParamGridMapFilter ==
    /\ RunsParamGrid
    /\ ParamGridMapFilterFor(ParamGridArgs)

(* ParamGrid._cleanup_extra_axes and _finalize_grid, after the loop *)
ParamGridCleanupFor(args) ==
    /\ pc = "render"
    /\ i = Len(param_product)
    /\ axes' = IF ~IsNone(args.col_wrap)
               THEN CleanupLast(axes, (col_wrap * nrow) - Len(param_product))
               ELSE axes
    /\ pc' = "done"
    /\ UNCHANGED <<cls, call, err, data, slices, col_wrap, nimages, nrow, ncol,
                   fig, params, locals, i, param_product, additional_kwargs>>
    /\ UNCHANGED <<sessionVars, warnings, caller_data>>

ParamGridCleanup ==
    /\ RunsParamGrid
    /\ ParamGridCleanupFor(ParamGridArgs)

(***************************************************************************)
(* filterplot of _filters.py: filt is a string, a callable (named by the   *)
(* function it is), or something else; describe is a bool or not; the      *)
(* extra keyword arguments are passed on to the filter.                    *)
(***************************************************************************)
implemented_filters ==
    [k \in {"sobel", "gaussian", "median", "max", "diff_of_gaussians",
            "gaussian_gradient_magnitude", "gaussian_laplace", "laplace",
            "min", "percentile", "prewitt", "rank", "uniform"} |->
        CASE k = "sobel" -> "ndi.sobel"
          [] k = "gaussian" -> "ndi.gaussian_filter"
          [] k = "median" -> "ndi.median_filter"
          [] k = "max" -> "ndi.maximum_filter"
          [] k = "diff_of_gaussians" -> "difference_of_gaussians"
          [] k = "gaussian_gradient_magnitude" -> "ndi.gaussian_gradient_magnitude"
          [] k = "gaussian_laplace" -> "ndi.gaussian_laplace"
          [] k = "laplace" -> "ndi.laplace"
          [] k = "min" -> "ndi.minimum_filter"
          [] k = "percentile" -> "ndi.percentile_filter"
          [] k = "prewitt" -> "ndi.prewitt"
          [] k = "rank" -> "ndi.rank_filter"
          [] OTHER -> "ndi.uniform_filter"]

FiltString(name) == [kind |-> "str", name |-> name]
FiltCallable(name) == [kind |-> "callable", name |-> name]
FiltNone == [kind |-> "none", name |-> ""]
FiltList == [kind |-> "list", name |-> ""]

Filts ==
    {FiltString(k) : k \in DOMAIN implemented_filters}
    \cup {FiltString("not-implemented-filt"), FiltString("Gaussian"),
          FiltString("")}
    \cup {FiltCallable("ndi.uniform_filter"), FiltCallable("my_filter")}
    \cup {FiltNone, FiltList}

FilterKwargs ==
    {<<>>, [sigma |-> 1], [size |-> 5, mode |-> "nearest"]}

FilterPlotCall(c) ==
    \E f \in Filts, kw \in FilterKwargs, dsc \in {"bool", "other"},
       img \in 1..MaxImages :
        c = [data |-> img, filt |-> f, describe |-> dsc, kwargs |-> kw]

Resolved(f) == [err |-> "none", func |-> f]
Unresolved(e) == [err |-> e, func |-> ""]

(* ResolveFilt without the check of the name of the filter *)
ResolveFilt_NoNameCheck(filt) ==
    IF filt.kind = "str" /\ filt.name \in DOMAIN implemented_filters
    THEN Resolved(implemented_filters[filt.name])
    ELSE IF filt.kind = "callable" THEN Resolved(filt.name)
    ELSE Unresolved("TypeError")

(* the filter function filt stands for, or the error raised *)
ResolveFilt(filt) ==
    IF filt.kind = "str" /\ filt.name \notin DOMAIN implemented_filters
    THEN Unresolved("NotImplementedError")
    ELSE IF filt.kind = "str" /\ filt.name \in DOMAIN implemented_filters
    THEN Resolved(implemented_filters[filt.name])
    ELSE IF filt.kind = "callable" THEN Resolved(filt.name)
    ELSE Unresolved("TypeError")

(* filt_func(data, **func_kwargs) *)
Filtered(d, func, func_kwargs) == [input |-> d, func |-> func, kwargs |-> func_kwargs]

(* filterplot: the checks, the filter applied to the data, and imgplot of
   the filtered data on axes of its own *)
FilterPlot ==
    /\ cls = "filterplot"
    /\ pc = "start"
    /\ LET r == ResolveFilt(call.filt)
       IN IF call.describe # "bool"
          THEN /\ Raise("TypeError")
               /\ UNCHANGED <<fig, axes>>
          ELSE IF r.err # "none"
          THEN /\ Raise(r.err)
               /\ UNCHANGED <<fig, axes>>
          ELSE /\ fig' = TRUE
               /\ axes' = <<[BlankCell EXCEPT !.images =
                             <<[d |-> Filtered(call.data, r.func, call.kwargs),
                                args |-> <<>>]>>]>>
               /\ pc' = "done"
               /\ err' = "none"
    /\ UNCHANGED <<cls, call, data, slices, col_wrap, nimages, nrow, ncol,
                   params, locals, i, param_product, additional_kwargs>>
    /\ UNCHANGED <<sessionVars, warnings, caller_data>>

(***************************************************************************)
(* The global configuration (_context.py).  rcParams maps a key to its     *)
(* value; the spine keys hold booleans and every other key a string.  The  *)
(* scalebar keys are registered by matplotlib_scalebar and have no entry   *)
(* in the matplotlib defaults.                                             *)
(***************************************************************************)
Spines == {"top", "bottom", "left", "right"}

SpineKey ==
    [s \in Spines |->
        CASE s = "top" -> "axes.spines.top"
          [] s = "bottom" -> "axes.spines.bottom"
          [] s = "left" -> "axes.spines.left"
          [] s = "right" -> "axes.spines.right"]

SpineKeys == {SpineKey[s] : s \in Spines}

ScalebarKeys ==
    {"scalebar.color", "scalebar.height_fraction", "scalebar.length_fraction",
     "scalebar.scale_loc", "scalebar.location", "scalebar.box_alpha"}

(* dict.update: the entries of g replace or extend those of f *)
UpdateAll(f, g) ==
    [k \in DOMAIN f \cup DOMAIN g |-> IF k \in DOMAIN g THEN g[k] ELSE f[k]]

(* mpl.rcParamsDefault, for the keys the package or its callers set *)
rcParamsDefault ==
    [k \in SpineKeys |-> TRUE] @@
    ( "axes.linewidth" :> "0.8" @@ "axes.titlesize" :> "large" @@
      "axes.titleweight" :> "normal" @@ "axes.labelsize" :> "medium" @@
      "axes.labelweight" :> "normal" @@ "axes.edgecolor" :> "black" @@
      "figure.constrained_layout.wspace" :> "0.02" @@
      "font.family" :> "sans-serif" @@ "font.weight" :> "normal" @@
      "font.size" :> "10.0" @@ "savefig.dpi" :> "figure" @@
      "savefig.bbox" :> "None" @@ "image.cmap" :> "viridis" @@
      "image.origin" :> "upper" @@ "image.interpolation" :> "antialiased" )

(* rcParams once matplotlib and matplotlib_scalebar are imported *)
rcParamsImported == rcParamsDefault @@ [k \in ScalebarKeys |-> "None"]

(* the three groups of modes of set_context *)
ContextSizes(mode) ==
    CASE mode = "paper" ->
            [linewidth |-> "1.5", size |-> "15", wspace |-> "0.2", font |-> "10"]
      [] mode \in {"notebook", "presentation", "talk"} ->
            [linewidth |-> "2.5", size |-> "20", wspace |-> "0.3", font |-> "15"]
      [] mode = "poster" ->
            [linewidth |-> "3.5", size |-> "25", wspace |-> "0.4", font |-> "20"]

ContextModes == {"paper", "notebook", "presentation", "talk", "poster"}

(* the rc argument: None, a dict or something else *)
NoRc == [kind |-> "none", dict |-> <<>>]
RcDict(d) == [kind |-> "dict", dict |-> d]
RcOther == [kind |-> "other", dict |-> <<>>]

(* set_context(mode, fontfamily, fontweight, rc): the new rcParams and the *)
(* error raised; what was set before the error stays set                   *)
set_context(rcp, mode, fontfamily, fontweight, rc) ==
    IF mode \notin ContextModes
    THEN [rc |-> rcp, err |-> "UnboundLocalError"]
    ELSE LET z == ContextSizes(mode)
             sized ==
                UpdateAll(rcp,
                    "axes.linewidth" :> z.linewidth @@
                    "axes.titlesize" :> z.size @@
                    "axes.titleweight" :> fontweight @@
                    "axes.labelsize" :> z.size @@
                    "axes.labelweight" :> fontweight @@
                    "figure.constrained_layout.wspace" :> z.wspace @@
                    "font.family" :> fontfamily @@
                    "font.weight" :> fontweight @@
                    "font.size" :> z.font)
         IN CASE rc.kind = "none" -> [rc |-> sized, err |-> "none"]
              [] rc.kind = "dict" ->
                    [rc |-> UpdateAll(sized, rc.dict), err |-> "none"]
              [] OTHER -> [rc |-> sized, err |-> "AssertionError"]

(* set_save_context(dpi) *)
set_save_context(rcp, dpi) ==
    UpdateAll(rcp, "savefig.dpi" :> dpi @@ "savefig.bbox" :> "tight")

(* reset_defaults(): rcParams.update(rcParamsDefault) *)
reset_defaults_All(rcp) ==
    UpdateAll(rcp, rcParamsImported)

reset_defaults(rcp) ==
    UpdateAll(rcp, rcParamsDefault)

(* set_image(cmap, origin, interpolation, despine) *)
set_image(rcp, cmap, origin, interpolation, despine) ==
    UpdateAll(rcp,
        [k \in SpineKeys |-> ~despine] @@
        ( "image.cmap" :> cmap @@ "image.origin" :> origin @@
          "image.interpolation" :> interpolation ))

(* set_scalebar(color, ...) with the other properties at their defaults *)
set_scalebar(rcp, color) ==
    UpdateAll(rcp,
        "scalebar.color" :> color @@
        "scalebar.height_fraction" :> "0.025" @@
        "scalebar.length_fraction" :> "0.3" @@
        "scalebar.scale_loc" :> "top" @@
        "scalebar.location" :> "lower right" @@
        "scalebar.box_alpha" :> "0")

(* rcParams after `import seaborn_image` *)
rcParamsInit ==
    set_save_context(
        set_image(
            set_scalebar(
                set_context(rcParamsImported, "paper", "sans-serif", "normal",
                            NoRc).rc,
                "white"),
            "deep", "lower", "nearest", FALSE),
        "300")

(***************************************************************************)
(* _SetupImage.plot (_core.py).  An axes is the visibility of its four     *)
(* spines; one that plot creates takes it from rcParams.                   *)
(***************************************************************************)
NewAxes(rcp) == [s \in Spines |-> rcp[SpineKey[s]]]

AllSpines(b) == [s \in Spines |-> b]

(* a colour limit: absent, as given, or a percentile of the data *)
NoLimit == [kind |-> "none", val |-> 0]
Given(v) == [kind |-> "given", val |-> v]
Percentile(q) == [kind |-> "percentile", val |-> q]

Limit(opt) == IF opt = None THEN NoLimit ELSE Given(opt[1])

Orientations == {"v", "vertical", "h", "horizontal"}

(* robust replaces the lower limit *)
min_robust_Always(a) == a.robust

min_robust(a) == a.robust /\ a.vmin = None

(* robust replaces the upper limit *)
max_robust(a) == a.robust /\ a.vmax = None

(* f.colorbar is called: without robust always, with it only when a limit  *)
(* was replaced                                                            *)
ColorbarDrawn(a) ==
    IF a.robust THEN min_robust(a) \/ max_robust(a) ELSE TRUE

(* self.despine in the colorbar block: None becomes True when rcParams     *)
(* hides all four spines                                                   *)
DespineInCbar(a, rcp) ==
    IF a.despine = "None" /\ \A s \in Spines : rcp[SpineKey[s]] = FALSE
    THEN "True"
    ELSE a.despine

(* plot() of _SetupImage(data, **a) under rcParams rcp, on the axes sup    *)
(* when a.ax says one is supplied                                          *)
SetupImagePlot(a, rcp, sup) ==
    LET ax0 == IF a.ax THEN sup ELSE NewAxes(rcp)
        percErr == (min_robust(a) \/ max_robust(a)) /\ a.perc = None
        vmin == IF min_robust(a) /\ ~percErr
                THEN Percentile(a.perc[1][1]) ELSE Limit(a.vmin)
        vmax == IF max_robust(a) /\ ~percErr
                THEN Percentile(a.perc[1][2]) ELSE Limit(a.vmax)
        badOrient == a.cbar /\ a.orientation \notin Orientations
        cax == a.cbar /\ ~percErr /\ ~badOrient
        cb == cax /\ ColorbarDrawn(a)
        d1 == DespineInCbar(a, rcp)
        unbound == /\ cax /\ ~cb
                   /\ \/ d1 = "True"
                      \/ a.cbar_ticks # None
                      \/ a.cbar_label # None
        e == CASE percErr -> "TypeError"
               [] badOrient -> "ValueError"
               [] unbound -> "UnboundLocalError"
               [] OTHER -> "none"
        d == CASE ~cax -> a.despine
               [] d1 = "True" -> "True"
               [] OTHER -> "False"
        spines == CASE e # "none" -> ax0
                    [] d = "True" -> AllSpines(FALSE)
                    [] d = "False" -> AllSpines(TRUE)
                    [] OTHER -> ax0
    IN [args |-> a, err |-> e, spines |-> spines, vmin |-> vmin, vmax |-> vmax,
        despine |-> d, cax |-> cax, cb |-> cb,
        outline |-> cb /\ d1 # "True",
        ticks |-> cb /\ a.cbar_ticks # None,
        label |-> cb /\ a.cbar_label # None /\ e = "none"]

(* nothing plotted yet *)
NoArgs ==
    [ax |-> FALSE, despine |-> "None", cbar |-> FALSE, robust |-> FALSE,
     perc |-> None, vmin |-> None, vmax |-> None, orientation |-> "v",
     cbar_label |-> None, cbar_ticks |-> None]

NotPlotted ==
    [args |-> NoArgs, err |-> "none", spines |-> AllSpines(TRUE),
     vmin |-> NoLimit, vmax |-> NoLimit, despine |-> "None", cax |-> FALSE,
     cb |-> FALSE, outline |-> FALSE, ticks |-> FALSE, label |-> FALSE]

(* the last call of a session and how many were made *)
NoOp == [name |-> "import", err |-> "none", n |-> 0]
Called(name, e) == [name |-> name, err |-> e, n |-> op.n + 1]

(* a session configures the library: "context" sessions use the whole of   *)
(* _context.py, "plot" sessions set the spines, may create an axes, and    *)
(* plot one image                                                          *)
ContextSession(c) == c = [family |-> "context"]
PlotSession(c) == c = [family |-> "plot"]

InSession == cls = "session" /\ pc = "session" /\ op.n < MaxCalls

SessionStep(name, rcp, e) ==
    /\ rcParams' = rcp
    /\ op' = Called(name, e)
    /\ UNCHANGED <<cls, call, pc, err, ax_spines, plotted>>
    /\ UNCHANGED <<gridVars, warnings, caller_data>>

SetContext ==
    /\ InSession
    /\ \E mode \in IF ContextSession(call)
                   THEN {"paper", "talk", "poster", "slides"}
                   ELSE {"paper"},
          rc \in IF ContextSession(call)
                 THEN {NoRc, RcDict("axes.edgecolor" :> "red"), RcOther}
                 ELSE {RcDict("axes.spines.top" :> FALSE)} :
          LET r == set_context(rcParams, mode, "sans-serif", "normal", rc)
          IN SessionStep("set_context", r.rc, r.err)

SetSaveContext ==
    /\ InSession /\ ContextSession(call)
    /\ \E dpi \in {"300", "200"} :
          SessionStep("set_save_context", set_save_context(rcParams, dpi),
                      "none")

ResetDefaults ==
    /\ InSession /\ ContextSession(call)
    /\ SessionStep("reset_defaults", reset_defaults(rcParams), "none")

SetImage ==
    /\ InSession
    /\ \E cmap \in IF ContextSession(call) THEN {"deep", "inferno"}
                   ELSE {"deep"},
          despine \in BOOLEAN :
          SessionStep("set_image",
                      set_image(rcParams, cmap, "lower", "nearest", despine),
                      "none")

SetScalebar ==
    /\ InSession /\ ContextSession(call)
    /\ \E color \in {"white", "red"} :
          SessionStep("set_scalebar", set_scalebar(rcParams, color), "none")

(* the caller's plt.subplots(): an axes to hand to plot() later *)
CallerSubplots ==
    /\ InSession /\ PlotSession(call)
    /\ ax_spines = None
    /\ ax_spines' = Some(NewAxes(rcParams))
    /\ op' = Called("subplots", "none")
    /\ UNCHANGED <<cls, call, pc, err, rcParams, plotted>>
    /\ UNCHANGED <<gridVars, warnings, caller_data>>

PlotImage ==
    /\ cls = "session" /\ pc = "session" /\ PlotSession(call)
    /\ \E ax \in IF ax_spines = None THEN {FALSE} ELSE BOOLEAN,
          despine \in {"None", "True", "False"},
          cbar \in BOOLEAN, robust \in BOOLEAN,
          perc \in {None, Some(<<2, 98>>)},
          vmin \in {None, Some(0)}, vmax \in {None, Some(1)},
          orientation \in Orientations \cup {"diagonal"},
          cbar_label \in {None, Some("height")},
          cbar_ticks \in {None, Some("ticks")} :
          LET a == [ax |-> ax, despine |-> despine, cbar |-> cbar,
                    robust |-> robust, perc |-> perc, vmin |-> vmin,
                    vmax |-> vmax, orientation |-> orientation,
                    cbar_label |-> cbar_label, cbar_ticks |-> cbar_ticks]
              r == SetupImagePlot(a, rcParams,
                                  IF ax THEN ax_spines[1] ELSE AllSpines(TRUE))
          IN /\ plotted' = r
             /\ err' = r.err
             /\ pc' = IF r.err = "none" THEN "plotted" ELSE "error"
    /\ op' = Called("plot", "none")
    /\ UNCHANGED <<cls, call, rcParams, ax_spines>>
    /\ UNCHANGED <<gridVars, warnings, caller_data>>

(***************************************************************************)
(* The specification: one call, of a constructor or of filterplot, with    *)
(* arguments from the explored sets.                                       *)
(***************************************************************************)
Init ==
    /\ \/ /\ cls = "ImageGrid"
          /\ \/ LayoutCall(call)
             \/ SlicedCall(call)
             \/ PickedCall(call)
             \/ StyledCall(call)
             \/ MappedCall(call)
          /\ pc = "start"
       \/ /\ cls = "ParamGrid"
          /\ ParamGridCall(call)
          /\ pc = "start"
       \/ /\ cls = "FilterGrid"
          /\ ParamGridCall(call)
          /\ pc = "start"
       \/ /\ cls = "filterplot"
          /\ FilterPlotCall(call)
          /\ pc = "start"
       \/ /\ cls = "session"
          /\ ContextSession(call) \/ PlotSession(call)
          /\ pc = "session"
    /\ err = "none"
    /\ data = NoData
    /\ slices = <<>>
    /\ col_wrap = 0
    /\ nimages = 0
    /\ nrow = 0
    /\ ncol = 0
    /\ fig = FALSE
    /\ params = DefaultParams
    /\ locals = DefaultParams
    /\ i = 0
    /\ axes = <<>>
    /\ param_product = <<>>
    /\ additional_kwargs = <<>>
    /\ rcParams = rcParamsInit
    /\ op = NoOp
    /\ ax_spines = None
    /\ plotted = NotPlotted
    /\ warnings = <<>>
    /\ caller_data = IF cls = "ImageGrid" THEN call.data ELSE NoData

Next ==
    \/ ImageGridInit
    \/ ImageGridMapImg
    \/ ImageGridCleanup
    \/ ParamGridInit
    \/ ParamGridMapStart
    \/ ParamGridMapFilter
    \/ ParamGridCleanup
    \/ FilterGridWarn
    \/ FilterPlot
    \/ SetContext
    \/ SetSaveContext
    \/ ResetDefaults
    \/ SetImage
    \/ SetScalebar
    \/ CallerSubplots
    \/ PlotImage

Spec == Init /\ [][Next]_vars

(***************************************************************************)
(* Properties.                                                             *)
(***************************************************************************)
IsImageGrid == cls = "ImageGrid"
IsParamGrid == cls = "ParamGrid"

(* the factor by which a list of map_func multiplies the images *)
FuncFactor == IF call.map_func.kind = "list" THEN call.map_func.n ELSE 1

(* the indices of an axis of the given extent that lie at start, start + s,
   start + 2s, ... below stop; an unset start is 0, an unset stop the extent,
   an unset step 1 *)
SelectedIndices(extent) ==
    LET lo == IF IsNone(call.start) THEN 0 ELSE Val(call.start)
        hi == IF IsNone(call.stop) THEN extent ELSE Val(call.stop)
        s == IF IsNone(call.step) THEN 1 ELSE Val(call.step)
    IN {j \in 0..(extent - 1) : j >= lo /\ j < hi /\ (j - lo) % s = 0}

(* the axis of the array a Python axis number names, 0-based *)
NamedAxis == IF call.axis < 0 THEN call.axis + 3 ELSE call.axis

(* the number of images an ImageGrid call puts on the grid, from its
   arguments: the elements of the list, the selected or picked slices of the
   3-D array, or the single 2-D image, once per mapped function *)
NumImages ==
    IF call.data.kind = "list" THEN Len(call.data.elems) * FuncFactor
    ELSE IF call.data.ndim = 3
    THEN IF call.slices.kind = "none"
         THEN Cardinality(SelectedIndices(Len(call.data.idx[NamedAxis + 1])))
         ELSE Len(call.slices.v)
    ELSE FuncFactor

(* C1: an ImageGrid of N >= 1 images with an explicit col_wrap >= 1 has
   cols = min(col_wrap, N) columns and rows = ceil(N / cols) rows, that is
   the least number of rows of cols cells that hold N images. *)
C1_GridShape ==
    (IsImageGrid /\ fig /\ ~IsNone(call.col_wrap)) =>
        /\ NumImages >= 1
        /\ ncol = Min(Val(call.col_wrap), NumImages)
        /\ nrow * ncol >= NumImages
        /\ (nrow - 1) * ncol < NumImages
        /\ Len(axes) = nrow * ncol

(* C1 witness: three slices wrapped after two columns, in two rows *)
C1_Witness ==
    /\ IsImageGrid /\ pc = "done"
    /\ call.col_wrap = Some(2)
    /\ NumImages = 3
    /\ nrow = 2 /\ ncol = 2

NothingRendered == \A k \in 1..Len(axes) : axes[k].images = <<>>

(* parameter p was supplied as a sequence of per-image values: a list or a
   tuple, for perc (whose single value is a tuple) a list *)
SuppliedAsSequence(p) ==
    IF p = "perc" THEN call.params[p].kind = "list"
    ELSE call.params[p].kind \in {"list", "tuple"}

SuppliedLen(p) == Len(call.params[p].val)

(* C2 as claimed: a styling parameter supplied as a sequence whose length
   differs from the number of grid cells makes the construction raise an
   error before any cell is rendered. *)
C2_Original ==
    (IsImageGrid /\ fig) =>
        \A p \in ParamNames :
            (SuppliedAsSequence(p) /\ SuppliedLen(p) # nimages) =>
                /\ NothingRendered
                /\ pc \in {"render", "error"} /\ i = 0

(* the length a supplied sequence has when it is checked: with a list of
   data and a list of F map_func, dx, units, dimension, cbar, cbar_log and
   cbar_label are repeated F times first *)
CheckedLen(p) ==
    IF p \in {"dx", "units", "dimension", "cbar", "cbar_log", "cbar_label"}
       /\ call.data.kind = "list" /\ call.map_func.kind = "list"
    THEN SuppliedLen(p) * call.map_func.n
    ELSE SuppliedLen(p)

(* C2: a styling parameter supplied as a sequence whose length, as checked,
   differs from the number of grid cells makes the construction raise an
   error before any cell is rendered: no cell ever holds an image, the loop
   never passes its first iteration and the construction ends in an error. *)
C2_LengthMismatchRaises ==
    (IsImageGrid /\ fig) =>
        \A p \in ParamNames :
            (SuppliedAsSequence(p) /\ CheckedLen(p) # NumImages) =>
                /\ NothingRendered
                /\ pc \in {"render", "error"} /\ i = 0
                /\ (pc = "error" => err \in {"AssertionError", "ValueError"})

(* C2 witness: with two images and two functions a dx of four entries, one
   per cell, is rejected *)
C2_Witness ==
    /\ IsImageGrid /\ pc = "error" /\ err = "AssertionError"
    /\ call.data.kind = "list" /\ call.map_func = FuncList(2)
    /\ call.params["dx"].kind = "list"
    /\ SuppliedLen("dx") = 4 /\ nimages = 4
    /\ NothingRendered

(* C3: the value of every styling parameter handed to the renderer for cell
   k is the supplied value itself when a single value was supplied, and
   element k of the supplied sequence when a sequence of as many elements
   as there are cells was supplied. *)
C3_PerCellValue ==
    IsImageGrid =>
        \A k \in 1..Len(axes) : \A n \in 1..Len(axes[k].images) :
            \A p \in ParamNames :
                LET handed == axes[k].images[n].args[p]
                IN /\ ~SuppliedAsSequence(p) => handed = call.params[p]
                   /\ (SuppliedAsSequence(p) /\ SuppliedLen(p) = NumImages)
                        => handed = Elem(call.params[p].val[k])

(* C3 witness: a grid of three cells rendered with a list of three vmin *)
C3_Witness ==
    /\ IsImageGrid /\ pc = "done"
    /\ call.params["vmin"].kind = "list" /\ SuppliedLen("vmin") = 3
    /\ NumImages = 3
    /\ \A k \in 1..3 : Len(axes[k].images) = 1

(* C5: a 3-D array sliced along axis a with step s >= 1 and slices unset
   gives one cell per index start, start + s, start + 2s, ... below stop,
   which are ceil(extent / s) cells when start and stop are unset; cell k
   shows the slice of the source array at the k-th of these indices along
   axis a. *)
C5_SlicedCells ==
    (/\ IsImageGrid /\ pc = "done"
     /\ call.data.kind = "array" /\ call.data.ndim = 3
     /\ call.slices.kind = "none") =>
        LET extent == Len(call.data.idx[NamedAxis + 1])
            lo == IF IsNone(call.start) THEN 0 ELSE Val(call.start)
            s == IF IsNone(call.step) THEN 1 ELSE Val(call.step)
        IN /\ nimages = Cardinality(SelectedIndices(extent))
           /\ (IsNone(call.start) /\ IsNone(call.stop)) =>
                 /\ (nimages - 1) * s < extent
                 /\ extent <= nimages * s
           /\ \A k \in 1..nimages :
                 /\ Len(axes[k].images) = 1
                 /\ axes[k].images[1].d.src =
                        Src("slice", NamedAxis, lo + (k - 1) * s)
                 /\ lo + (k - 1) * s \in SelectedIndices(extent)

(* C5 witness: every second slice along axis 1 of an array of extent 3 *)
C5_Witness ==
    /\ IsImageGrid /\ pc = "done"
    /\ call.data.kind = "array" /\ call.data.ndim = 3
    /\ call.slices.kind = "none"
    /\ call.axis = 1 /\ call.step = Some(2)
    /\ IsNone(call.start) /\ IsNone(call.stop)
    /\ Len(call.data.idx[2]) = 3
    /\ nimages = 2
    /\ axes[2].images[1].d.src = Src("slice", 1, 2)

(* the values a ParamGrid call binds to the row and the column parameter *)
RowValues == call.kwargs[call.row.name]
ColValues == call.kwargs[call.col.name]

BothGiven == call.row.kind = "str" /\ call.col.kind = "str"

(* C4: a ParamGrid with row bound to R values and col bound to C values has
   an R-by-C grid and renders R*C cells, each once; the cell at row-major
   index r*C + c is rendered with the overrides row: row_values[r],
   col: col_values[c]. *)
C4_CartesianSweep ==
    (IsParamGrid /\ pc = "done" /\ BothGiven) =>
        LET R == Len(RowValues)
            C == Len(ColValues)
        IN /\ nrow = R /\ ncol = C
           /\ Len(axes) = R * C
           /\ \A r \in 0..(R - 1) : \A c \in 0..(C - 1) :
                 LET cell == axes[r * C + c + 1]
                 IN /\ Len(cell.images) = 1
                    /\ cell.images[1].d = "filtered"
                    /\ cell.images[1].args[call.row.name] = <<RowValues[r + 1]>>
                    /\ cell.images[1].args[call.col.name] = <<ColValues[c + 1]>>

(* C4 witness: two row values and three column values *)
C4_Witness ==
    /\ IsParamGrid /\ pc = "done" /\ BothGiven
    /\ Len(RowValues) = 2 /\ Len(ColValues) = 3
    /\ Len(axes) = 6
    /\ Len(axes[6].images) = 1

(* C6 as claimed: ParamGrid raises ValueError whenever col_wrap is given
   together with row, before any figure or axes are created. *)
C6_Original ==
    (IsParamGrid /\ pc # "start"
     /\ ~IsNone(call.col_wrap) /\ call.row.kind # "none") =>
        /\ pc = "error" /\ err = "ValueError"
        /\ ~fig /\ axes = <<>>

(* C6: ParamGrid raises an error whenever col_wrap is given together with
   row, before any figure or axes are created; the error is a ValueError
   when row is a string and col, if given, is a string, and a ValueError or
   a TypeError otherwise. *)
C6_ColWrapWithRow ==
    (IsParamGrid /\ pc # "start"
     /\ ~IsNone(call.col_wrap) /\ call.row.kind # "none") =>
        /\ pc = "error"
        /\ err \in {"ValueError", "TypeError"}
        /\ (call.row.kind = "str" /\ call.col.kind # "other") => err = "ValueError"
        /\ ~fig /\ axes = <<>>

(* C6 witness: valid data, function, row and col, and a col_wrap *)
C6_Witness ==
    /\ IsParamGrid /\ pc = "error" /\ err = "ValueError"
    /\ ~IsNone(call.data) /\ ~IsNone(call.map_func)
    /\ BothGiven
    /\ call.row.name \in DOMAIN call.kwargs /\ call.col.name \in DOMAIN call.kwargs
    /\ call.col_wrap = Some(2)
    /\ ~fig

(* the number of images a ParamGrid call shows: one per combination of the
   row and column values, or the one image when neither is given *)
NumCombinations ==
    IF BothGiven THEN Len(RowValues) * Len(ColValues)
    ELSE IF call.row.kind = "str" THEN Len(RowValues)
    ELSE IF call.col.kind = "str" THEN Len(ColValues)
    ELSE 1

(* C7: after construction of an ImageGrid or a ParamGrid of rows*cols cells
   for N images, exactly the trailing cells N .. rows*cols-1 are blanked,
   every cell below N holds exactly one image, and no cell is both rendered
   and blanked. *)
C7_TrailingCellsBlanked ==
    ((IsImageGrid \/ IsParamGrid) /\ pc = "done") =>
        LET N == IF IsImageGrid THEN NumImages ELSE NumCombinations
        IN /\ Len(axes) = nrow * ncol
           /\ N <= Len(axes)
           /\ \A k \in 1..Len(axes) :
                 /\ axes[k].blanked <=> k > N
                 /\ k <= N => Len(axes[k].images) = 1
                 /\ ~(axes[k].blanked /\ axes[k].images # <<>>)

(* C7 witness: a ParamGrid of two column values wrapped after three columns *)
C7_Witness ==
    /\ IsParamGrid /\ pc = "done"
    /\ call.col_wrap = Some(3)
    /\ Len(param_product) = 2
    /\ Len(axes) = 3
    /\ axes[3].blanked /\ ~axes[2].blanked

(* C8: in a ParamGrid with row and col, the row label is set on exactly the
   cells of the first column (i mod C = 0) and the column label on exactly
   the cells of the first row (i < C). *)
C8_OuterLabels ==
    (IsParamGrid /\ pc = "done" /\ BothGiven) =>
        LET C == Len(ColValues)
        IN \A k \in 1..Len(axes) :
              /\ ~IsNone(axes[k].ylabel) <=> (k - 1) % C = 0
              /\ ~IsNone(axes[k].title) <=> k - 1 < C

(* C9: a list of images with an element of more than 2 dimensions makes
   ImageGrid raise ValueError before any element of the list is rendered. *)
C9_HighDimElementRejected ==
    (/\ IsImageGrid /\ pc # "start"
     /\ call.data.kind = "list"
     /\ \E k \in 1..Len(call.data.elems) : call.data.elems[k].ndim > 2) =>
        /\ NothingRendered
        /\ pc # "done"
        /\ pc = "error" => err = "ValueError"

(* only col is bound to a parameter of the call *)
OnlyCol == call.row.kind = "none" /\ call.col.kind = "str"

(* C11: a ParamGrid with only col bound to N >= 1 values and a col_wrap >= 1
   has cols = col_wrap columns, clamped to N when col_wrap > N, and
   rows = ceil(N / cols) rows. *)
C11_ColWrapClamped ==
    (IsParamGrid /\ fig /\ OnlyCol /\ ~IsNone(call.col_wrap)) =>
        LET N == Len(ColValues)
        IN /\ ncol = Min(Val(call.col_wrap), N)
           /\ nrow = Ceil(N, ncol)
           /\ Len(axes) = nrow * ncol

(* the slices of a 3-D array were picked with the slices argument *)
SlicesPicked ==
    /\ IsImageGrid
    /\ call.data.kind = "array" /\ call.data.ndim = 3
    /\ call.slices.kind # "none"

(* C12: with slices given for a 3-D array the grid is laid out for
   len(slices) cells, one cell for a single integer, and the image drawn
   into cell i is the 2-D slice of the input array at index slices[i] along
   axis, in the order the indices were given; a finished grid shows every
   one of them. *)
C12_PickedSlices ==
    (SlicesPicked /\ fig) =>
        /\ nimages = Len(call.slices.v)
        /\ call.slices.kind = "int" => nimages = 1
        /\ \A k \in 1..Len(axes) : \A n \in 1..Len(axes[k].images) :
              /\ k <= nimages
              /\ axes[k].images[n].d.src =
                     Src("slice", NamedAxis, call.slices.v[k])
        /\ pc = "done" =>
              \A k \in 1..nimages : Len(axes[k].images) = 1

(* C12 witness: slices [2, 0] along the last axis, shown in that order *)
C12_Witness ==
    /\ SlicesPicked /\ pc = "done"
    /\ call.slices.v = <<2, 0>> /\ call.axis = -1
    /\ axes[1].images[1].d.src = Src("slice", 2, 2)
    /\ axes[2].images[1].d.src = Src("slice", 2, 0)

(* C13: ImageGrid raises ValueError for every 3-D input whose axis is not
   one of 0, 1, 2, -1, whatever the other arguments are, slices supplied or
   not. *)
C13_BadAxisRejected ==
    (/\ IsImageGrid /\ pc # "start"
     /\ call.data.kind = "array" /\ call.data.ndim = 3
     /\ call.axis \notin {0, 1, 2, -1}) =>
        pc = "error" /\ err = "ValueError"

(* a list of images with a list of functions mapped over it *)
ListOfFuncsOnList ==
    /\ IsImageGrid
    /\ call.data.kind = "list" /\ call.map_func.kind = "list"

(* C14: for a list of D images and a list of F callables the grid is laid
   out for D*F cells, and the image drawn into cell k (from 0) is
   map_func[k div D] applied to data[k mod D], called with the keyword
   arguments map_func_kw[k div D], with none when that entry is None or
   map_func_kw is not given; a finished grid shows every one of them. *)
C14_FuncMajorOrder ==
    (ListOfFuncsOnList /\ fig) =>
        LET D == Len(call.data.elems)
            F == call.map_func.n
        IN /\ nimages = D * F
           /\ Len(axes) >= D * F
           /\ \A c \in 1..Len(axes) : \A n \in 1..Len(axes[c].images) :
                 LET k == c - 1
                     shown == axes[c].images[n].d
                 IN /\ k < D * F
                    /\ shown.src = call.data.elems[(k % D) + 1].src
                    /\ shown.fn = (k \div D) + 1
                    /\ shown.kw = IF call.map_func_kw.kind = "none" THEN None
                                  ELSE call.map_func_kw.v[(k \div D) + 1]
           /\ pc = "done" => \A c \in 1..(D * F) : Len(axes[c].images) = 1

(* C14 witness: two images and two functions, the second with keyword
   arguments; the third cell shows the second function on the first image *)
C14_Witness ==
    /\ ListOfFuncsOnList /\ pc = "done"
    /\ Len(call.data.elems) = 2 /\ call.map_func = FuncList(2)
    /\ call.map_func_kw = KwList(<<None, Some(2)>>)
    /\ axes[3].images[1].d.src = Src("elem", 0, 1)
    /\ axes[3].images[1].d.fn = 2
    /\ axes[3].images[1].d.kw = Some(2)
    /\ axes[2].images[1].d.kw = None

(* C15: for a list of D images and a list of F functions, each of dx, units,
   dimension, cbar, cbar_label and cbar_log supplied as a sequence of D
   entries has D*F entries after construction, and cell k (from 0) is
   rendered with entry k mod D of the supplied sequence, the entry of its
   source image. *)
C15_ParamsFollowImages ==
    (ListOfFuncsOnList /\ fig) =>
        LET D == Len(call.data.elems)
            F == call.map_func.n
        IN \A p \in AdjustedParams :
              (SuppliedAsSequence(p) /\ SuppliedLen(p) = D) =>
                 /\ Len(params[p].val) = D * F
                 /\ \A c \in 1..Len(axes) : \A n \in 1..Len(axes[c].images) :
                       /\ axes[c].images[n].args[p] =
                              Elem(call.params[p].val[((c - 1) % D) + 1])
                       /\ axes[c].images[n].d.src =
                              call.data.elems[((c - 1) % D) + 1].src
                 /\ pc = "done" => \A c \in 1..(D * F) : Len(axes[c].images) = 1

(* C15 witness: two images, two functions and a dx of two entries; the
   fourth cell is rendered with the dx of the second image *)
C15_Witness ==
    /\ ListOfFuncsOnList /\ pc = "done"
    /\ Len(call.data.elems) = 2 /\ call.map_func = FuncList(2)
    /\ call.params["dx"].kind = "list" /\ SuppliedLen("dx") = 2
    /\ Len(params["dx"].val) = 4
    /\ axes[4].images[1].args["dx"] = Elem(2)
    /\ axes[3].images[1].args["dx"] = Elem(1)

(* the data and the slicing arguments of an ImageGrid call pass the checks
   that come before the check of map_func *)
DataAccepted ==
    /\ call.data.kind # "none"
    /\ call.data.kind = "array" =>
          /\ call.data.ndim <= 3
          /\ (call.data.ndim = 3 /\ call.slices.kind = "none")
                => call.axis \in {0, 1, 2, -1}

(* construction ended in error e and no figure was created *)
RaisedBeforeFigure(e) == pc = "error" /\ err = e /\ ~fig /\ axes = <<>>

(* C16: for data and slicing arguments that are themselves accepted,
   ImageGrid raises TypeError when map_func is neither a callable nor a
   list or tuple of callables only, TypeError when map_func_kw is not a
   dict for a single callable or not a list or tuple for a list of
   callables, ValueError when len(map_func_kw) differs from len(map_func),
   and ValueError when a list of callables, with a map_func_kw of the right
   type or none, is given for 3-D data; every one of these errors is raised
   before any figure is created. *)
C16_MapFuncErrors ==
    (IsImageGrid /\ pc # "start" /\ DataAccepted) =>
        LET mf == call.map_func
            kw == call.map_func_kw
            badFunc == mf.kind \in {"other", "mixedlist"}
            badKwType == \/ mf.kind = "callable" /\ kw.kind \notin {"none", "dict"}
                         \/ mf.kind = "list" /\ kw.kind \notin {"none", "list"}
            badKwLen == /\ mf.kind = "list" /\ kw.kind = "list"
                        /\ Len(kw.v) # mf.n
            listOn3D == /\ mf.kind = "list"
                        /\ call.data.kind = "array" /\ call.data.ndim = 3
        IN /\ badFunc => RaisedBeforeFigure("TypeError")
           /\ badKwType => RaisedBeforeFigure("TypeError")
           /\ badKwLen => RaisedBeforeFigure("ValueError")
           /\ (listOn3D /\ ~badKwType) => RaisedBeforeFigure("ValueError")

(* C16 witness: two functions with a map_func_kw of one entry *)
C16_Witness ==
    /\ IsImageGrid /\ RaisedBeforeFigure("ValueError")
    /\ call.data.kind = "list" /\ Len(call.data.elems) = 2
    /\ call.map_func = FuncList(2)
    /\ call.map_func_kw.kind = "list" /\ Len(call.map_func_kw.v) = 1

IsFilterPlot == cls = "filterplot"

(* the one image filterplot displays is this function applied to the input
   with the extra keyword arguments *)
Displays(func) ==
    /\ pc = "done"
    /\ Len(axes) = 1 /\ Len(axes[1].images) = 1
    /\ axes[1].images[1].d.input = call.data
    /\ axes[1].images[1].d.func = func
    /\ axes[1].images[1].d.kwargs = call.kwargs

(* filterplot ended in error e with nothing rendered *)
RaisedUnrendered(e) == pc = "error" /\ err = e /\ ~fig /\ NothingRendered

(* C17: filterplot, called with a bool describe, resolves filt into exactly
   one outcome: a string that is a key of implemented_filters selects the
   mapped function, any other string raises NotImplementedError, a callable
   is used as given, anything else raises TypeError; on success the image
   displayed is the selected function applied to the input with the extra
   keyword arguments, on error nothing is rendered. *)
C17_FiltResolved ==
    (IsFilterPlot /\ pc # "start" /\ call.describe = "bool") =>
        LET f == call.filt
        IN /\ (f.kind = "str" /\ f.name \in DOMAIN implemented_filters)
                 => Displays(implemented_filters[f.name])
           /\ (f.kind = "str" /\ f.name \notin DOMAIN implemented_filters)
                 => RaisedUnrendered("NotImplementedError")
           /\ f.kind = "callable" => Displays(f.name)
           /\ f.kind \notin {"str", "callable"} => RaisedUnrendered("TypeError")
           /\ pc \in {"done", "error"}

(* C17 witness: a name that is not a key of implemented_filters *)
C17_Witness ==
    /\ IsFilterPlot
    /\ call.filt = FiltString("not-implemented-filt")
    /\ RaisedUnrendered("NotImplementedError")

(* C18: every rendered cell of a ParamGrid, with row and col each given or
   omitted, displays the result of map_func applied to the input data; no
   cell displays the unprocessed input. *)
C18_EveryCellFiltered ==
    IsParamGrid =>
        \A k \in 1..Len(axes) : \A n \in 1..Len(axes[k].images) :
            axes[k].images[n].d = "filtered"

(* the keyword arguments of a ParamGrid call whose name is neither the row
   nor the col parameter name *)
OtherKwargs ==
    {k \in DOMAIN call.kwargs :
        /\ call.row.kind = "str" => k # call.row.name
        /\ call.col.kind = "str" => k # call.col.name}

(* C19: every keyword argument of a ParamGrid call whose name differs from
   the row and col parameter names is forwarded, with its value unchanged,
   to the filter function in every rendered cell, whichever of row and col
   is given. *)
C19_KwargsForwarded ==
    (IsParamGrid /\ (call.row.kind = "str" \/ call.col.kind = "str")) =>
        \A c \in 1..Len(axes) : \A n \in 1..Len(axes[c].images) :
            \A k \in OtherKwargs :
                /\ k \in DOMAIN axes[c].images[n].args
                /\ axes[c].images[n].args[k] = call.kwargs[k]

(* a row or col that names a parameter not passed as a keyword argument *)
NamesMissing(n) == n.kind = "str" /\ n.name \notin DOMAIN call.kwargs

(* C20: ParamGrid raises ValueError when data is None or map_func is None,
   TypeError when row or col is given but is not a string, and ValueError
   when row or col names a parameter that was not passed as a keyword
   argument, each before any figure is created; the checks run in the order
   data, map_func, row, col, and the first that fails decides the error. *)
C20_ParamGridValidation ==
    (IsParamGrid /\ pc # "start") =>
        LET given == ~IsNone(call.data) /\ ~IsNone(call.map_func)
            row == call.row
            col == call.col
        IN /\ IsNone(call.data) => RaisedBeforeFigure("ValueError")
           /\ IsNone(call.map_func) => RaisedBeforeFigure("ValueError")
           /\ (given /\ row.kind = "other") => RaisedBeforeFigure("TypeError")
           /\ (given /\ NamesMissing(row)) => RaisedBeforeFigure("ValueError")
           /\ (given /\ col.kind = "other" /\ ~NamesMissing(row))
                 => RaisedBeforeFigure("TypeError")
           /\ (given /\ NamesMissing(col) /\ row.kind # "other")
                 => RaisedBeforeFigure("ValueError")
           /\ (\/ ~given
               \/ row.kind = "other" \/ col.kind = "other"
               \/ NamesMissing(row) \/ NamesMissing(col))
                 => /\ pc = "error" /\ err \in {"ValueError", "TypeError"}
                    /\ ~fig /\ axes = <<>>

(* C20 witness: row names a parameter that is not among the keyword
   arguments *)
C20_Witness ==
    /\ IsParamGrid /\ RaisedBeforeFigure("ValueError")
    /\ ~IsNone(call.data) /\ ~IsNone(call.map_func)
    /\ call.row = Name("sigma") /\ "sigma" \notin DOMAIN call.kwargs
    /\ IsNone(call.col_wrap)

(* C21: ImageGrid accepts a 4-D array of shape (n, h, w, 3): construction
   succeeds, the data kept is the input, and the grid has one cell per
   index along the first axis, cell i displaying the RGB image data[i]. *)
C21_FourDimAccepted ==
    (/\ IsImageGrid /\ pc # "start"
     /\ call.data.kind = "array" /\ call.data.ndim = 4) =>
        LET n == Len(call.data.idx[1])
        IN /\ pc # "error"
           /\ fig /\ data = call.data /\ nimages = n
           /\ pc = "done" =>
                 \A k \in 1..n :
                    /\ Len(axes[k].images) = 1
                    /\ axes[k].images[1].d.src = Src("slice", 0, k - 1)

IsSession == cls = "session"

(* plot() returned *)
Plotted == IsSession /\ pc = "plotted"

(* rcParams shows or hides all four spines, as set_image leaves it *)
GlobalSpines(b) == \A s \in Spines : rcParams[SpineKey[s]] = b

(* C22: after plot(), despine=True leaves the four spines of the image     *)
(* hidden and despine=False leaves them visible, whatever set_image set;   *)
(* with despine=None they are hidden after set_image(despine=True) and     *)
(* visible after set_image(despine=False).                                 *)
C22_DespineLocalOverGlobal ==
    Plotted =>
        /\ plotted.args.despine = "True" => plotted.spines = AllSpines(FALSE)
        /\ plotted.args.despine = "False" => plotted.spines = AllSpines(TRUE)
        /\ \A b \in BOOLEAN :
              (plotted.args.despine = "None" /\ GlobalSpines(b)) =>
                  plotted.spines = AllSpines(b)

(* plot() was called, whether it returned or raised *)
PlotCalled == IsSession /\ op.name = "plot"

(* C23: with robust=True and perc given, plot() replaces vmin by the       *)
(* percentile perc[0] and vmax by the percentile perc[1] only where the    *)
(* bound was None; a bound the caller supplied is left as it was, in all   *)
(* four combinations.                                                      *)
C23_RobustOnlyReplacesNone ==
    (PlotCalled /\ plotted.args.robust /\ plotted.args.perc # None) =>
        LET a == plotted.args
        IN /\ plotted.vmin = IF a.vmin = None
                             THEN Percentile(a.perc[1][1])
                             ELSE Given(a.vmin[1])
           /\ plotted.vmax = IF a.vmax = None
                             THEN Percentile(a.perc[1][2])
                             ELSE Given(a.vmax[1])

C23_Witness ==
    /\ Plotted /\ plotted.args.robust
    /\ plotted.args.vmin = None /\ plotted.args.vmax = Some(1)
    /\ plotted.vmin = Percentile(2) /\ plotted.vmax = Given(1)

(* the test `"scalebar" in k` of a key of rcParams *)
InScalebar(k) == k \in ScalebarKeys

(* C24: whatever set_context, set_image, set_save_context and set_scalebar *)
(* calls came before, reset_defaults() leaves every key of rcParams that   *)
(* does not contain "scalebar" at its matplotlib default and every         *)
(* scalebar key as it was.                                                 *)
C24_ResetKeepsScalebar ==
    [][(op'.name = "reset_defaults" /\ op'.n = op.n + 1) =>
          /\ DOMAIN rcParams' = DOMAIN rcParams
          /\ \A k \in DOMAIN rcParams' :
                IF InScalebar(k)
                THEN rcParams'[k] = rcParams[k]
                ELSE rcParams'[k] = rcParamsDefault[k]]_vars

C24_Witness ==
    /\ IsSession /\ op.name = "reset_defaults"
    /\ rcParams["scalebar.color"] = "red"
    /\ rcParams["axes.linewidth"] = rcParamsDefault["axes.linewidth"]
    /\ GlobalSpines(TRUE)

IsFilterGrid == cls = "FilterGrid"

(* a step of the construction of ParamGrid with the arguments args *)
ParamGridStep(args) ==
    \/ pc = "construct" /\ ParamGridInitFor(args)
    \/ ParamGridMapStartFor(args)
    \/ ParamGridMapFilterFor(args)
    \/ ParamGridCleanupFor(args)

(* C25: constructing FilterGrid first emits the deprecation UserWarning,   *)
(* before anything else happens, and then does exactly what ParamGrid does *)
(* for the same arguments: every later step is the step of ParamGrid with  *)
(* the arguments FilterGrid was called with, up to the same grid or the    *)
(* same error.                                                             *)
C25_FilterGridIsParamGrid ==
    [][IsFilterGrid =>
          IF pc = "start"
          THEN /\ warnings' = <<"UserWarning">>
               /\ UNCHANGED <<err, gridVars>>
          ELSE /\ warnings = <<"UserWarning">>
               /\ UNCHANGED warnings
               /\ ParamGridStep(call)]_vars

C25_Witness ==
    /\ IsFilterGrid /\ pc = "done"
    /\ warnings = <<"UserWarning">>
    /\ ~IsNone(call.col_wrap)
    /\ \E k \in 1..Len(axes) : Len(axes[k].images) = 1

(* C26: whenever cbar is true and orientation is one of "v", "vertical",   *)
(* "h" and "horizontal", plot() draws a colorbar, for every combination of *)
(* robust with vmin and vmax supplied or None, so that cbar_label,         *)
(* cbar_ticks and despine=True never refer to a colorbar that was not      *)
(* created.                                                                *)
C26_ColorbarAlwaysDrawn ==
    (/\ PlotCalled
     /\ plotted.args.cbar
     /\ plotted.args.orientation \in Orientations
     /\ plotted.err # "TypeError") =>
        /\ plotted.cb
        /\ plotted.err = "none"

(* C27: constructing an ImageGrid never modifies the data the caller       *)
(* passed, list, tuple or array, whatever map_func and map_func_kw are,    *)
(* and also when the construction fails.                                   *)
C27_InputUntouched ==
    IsImageGrid => caller_data = call.data

(* no other keyword argument has a name contained in the row or col name *)
NoNameInsideAnother ==
    \A k \in OtherKwargs :
        /\ call.row.kind = "str" => ~InString(k, call.row.name)
        /\ call.col.kind = "str" => ~InString(k, call.col.name)

(* C28: once a ParamGrid is constructed, additional_kwargs holds exactly   *)
(* the keyword arguments that are neither the row nor the col parameter,   *)
(* and rendering the cells neither adds an entry nor changes a value.      *)
C28_AdditionalKwargsExact ==
    (/\ IsParamGrid /\ fig
     /\ call.row.kind = "str" \/ call.col.kind = "str"
     /\ NoNameInsideAnother) =>
        additional_kwargs = [k \in OtherKwargs |-> call.kwargs[k]]

(* a list of two-dimensional images, a list of functions over it, and one  *)
(* styling parameter p given as a list                                     *)
OneListParam(p) ==
    /\ ListOfFuncsOnList
    /\ Len(call.data.elems) >= 1
    /\ \A k \in 1..Len(call.data.elems) : call.data.elems[k].ndim = 2
    /\ call.map_func_kw = NoKw
    /\ call.params[p].kind = "list"

(* a list of length n given for q passes the length check of a grid of D   *)
(* images and F functions                                                  *)
AcceptedLen(q, n, D, F) ==
    LET ps == adjust_param_list_len(
                  [DefaultParams EXCEPT ![q] = SeqValue("list", n)], F)
    IN ~check_len_wrt_n_images(ps[q].val, D * F)

(* C29: with list data of length D and a list map_func of length F, a list *)
(* of a given length is accepted for cmap, robust, perc, vmin or vmax      *)
(* exactly when a list of that length is accepted for dx, units,           *)
(* dimension, cbar, cbar_label or cbar_log.                                *)
C29_Original ==
    \A p \in ParamNames :
        (OneListParam(p) /\ pc \in {"done", "error"}) =>
            LET n == Len(call.params[p].val)
                D == Len(call.data.elems)
                F == call.map_func.n
            IN /\ pc = "done" <=> AcceptedLen(p, n, D, F)
               /\ \A q1 \in ParamNames \ AdjustedParams, q2 \in AdjustedParams :
                     AcceptedLen(q1, n, D, F) <=> AcceptedLen(q2, n, D, F)

(* C29 as the code has it: the styling parameters fall into two groups; a  *)
(* list given for cmap, robust, perc, vmin or vmax is accepted exactly     *)
(* when it has D*F entries, one per cell, and a list given for dx, units,  *)
(* dimension, cbar, cbar_label or cbar_log exactly when it has D entries,  *)
(* one per image; a list that is not accepted ends the construction with   *)
(* an AssertionError.                                                      *)
C29_TwoLengthRequirements ==
    \A p \in ParamNames :
        (OneListParam(p) /\ pc \in {"done", "error"}) =>
            LET n == Len(call.params[p].val)
                D == Len(call.data.elems)
                F == call.map_func.n
                required == IF p \in {"dx", "units", "dimension", "cbar",
                                      "cbar_label", "cbar_log"}
                            THEN D ELSE D * F
            IN /\ pc = "done" <=> n = required
               /\ pc = "error" => err = "AssertionError"

(* two images and two functions: a cbar of two entries, one per image, is  *)
(* accepted and shown in the four cells                                    *)
C29_Witness ==
    /\ OneListParam("cbar") /\ pc = "done"
    /\ Len(call.data.elems) = 2 /\ call.map_func.n = 2
    /\ Len(call.params["cbar"].val) = 2
    /\ nimages = 4

(* the arguments of the last plot with cbar switched *)
OtherCbar == [plotted.args EXCEPT !.cbar = ~plotted.args.cbar]

(* C30: with despine=None the visibility of each of the four spines of the *)
(* image after plot() is the same with cbar=True as with cbar=False,       *)
(* whether rcParams shows all spines, hides all, or hides only some.       *)
C30_CbarKeepsSpines ==
    (/\ Plotted
     /\ plotted.args.despine = "None"
     /\ ~plotted.args.ax) =>
        LET other == SetupImagePlot(OtherCbar, rcParams, AllSpines(TRUE))
        IN other.err = "none" => other.spines = plotted.spines

=============================================================================
